---- MODULE Spec2Model ----
(***************************************************************************)
(* Data validation stage of the PredictiveAnalytics pipeline:              *)
(* DataValidation in PredictiveAnalytics/components/data_validation.py.    *)
(*                                                                         *)
(* Conventions of the model                                                *)
(*  - A Python value that may be None (or a dict key that may be absent)   *)
(*    is a sequence of length at most one: <<>> is None/absent, <<v>> is   *)
(*    the value v.                                                         *)
(*  - A string is a sequence of tokens, so that endswith, `in`, replace    *)
(*    and join are computed on it and not assumed.                         *)
(*  - share and drift_share are floats in the code.  The model keeps them  *)
(*    in units of one half (1 is 0.5, 2 is 1.0, 4 is 2.0): every such      *)
(*    value is an exact binary float, so float(), >= and count / share     *)
(*    followed by round() are exact on them.                               *)
(*  - A table (DataFrame) is the set of its column names: pd.read_csv      *)
(*    gives distinct column labels.                                        *)
(***************************************************************************)
EXTENDS Integers, Sequences, FiniteSets, TLC

VARIABLES
    schema,            \* self._schema_config
    config_path,       \* self.data_validation_config.drift_report_file_path
    pc,                \* position in initiate_data_validation / detect_dataset_drift
    train_df,          \* Optional table
    test_df,           \* Optional table
    error_messages,    \* list of messages
    validation_passed,
    drift_status,
    rendered,          \* Optional report held by the engine's snapshot
    files,             \* the file system: path -> content
    report_dict,       \* Optional report, as loaded back from JSON
    reference_df,      \* Optional table given to the normalizer
    parsed,            \* Optional outcome of the normalizer
    result,            \* what the caller receives
    steps,             \* the steps executed so far, in order
    failed_at,         \* Optional step that raised
    mongo_client,      \* MongoDBClient.client, the class attribute
    connections,       \* number of pymongo.MongoClient objects created
    instances          \* one record per MongoDBClient(...) call, in order

vars == <<schema, config_path, pc, train_df, test_df, error_messages,
          validation_passed, drift_status, rendered, files, report_dict,
          reference_df, parsed, result, steps, failed_at,
          mongo_client, connections, instances>>

mongo_vars == <<mongo_client, connections, instances>>

None == <<>>
Some(x) == <<x>>
IsNone(o) == Len(o) = 0
Val(o) == o[1]

\* ------------------------------------------------------------------ bounds
MaxCount == 3
MaxShare == 4
MaxThreshold == 2

\* 0.5, in units of one half
drift_share_threshold_default == 1

\* ------------------------------------------------------------------ inputs
Columns == {"c1", "c2", "c3"}
Tables == SUBSET Columns

DCC == "DriftedColumnsCount"
CfgTypes == { <<>>,
              <<"evidently:metric_v2:", "DriftedColumnsCount">>,
              <<"evidently:metric_v2:", "ValueDrift">> }
MetricNames == { <<"ValueDrift", "(column=c1)">>,
                 <<"DriftedColumnsCount", "(drift_share=0.5)">> }

OptCount == {None} \cup {Some(c) : c \in 0..MaxCount}
OptShare == {None} \cup {Some(s) : s \in 0..MaxShare}
OptThreshold == {None} \cup {Some(t) : t \in (-1)..MaxThreshold}

\* one record of the report's "metrics" list
Metrics == [cfg_type : CfgTypes, metric_name : MetricNames,
            count : OptCount, share : OptShare, drift_share : OptThreshold]

OtherMetric == [cfg_type |-> <<"evidently:metric_v2:", "ValueDrift">>,
                metric_name |-> <<"ValueDrift", "(column=c1)">>,
                count |-> None, share |-> None, drift_share |-> None]

\* reports of at most one metric, and the two-metric reports that put a
\* non-matching record before or after one
RunReports == {[metrics |-> <<>>]} \cup {[metrics |-> <<m>>] : m \in Metrics}
Reports == RunReports
             \cup {[metrics |-> <<OtherMetric, m>>] : m \in Metrics}
             \cup {[metrics |-> <<m, OtherMetric>>] : m \in Metrics}

\* --------------------------------------------------------- string helpers
EndsWith(s, tok) == Len(s) > 0 /\ s[Len(s)] = tok
Contains(s, tok) == \E i \in 1..Len(s) : s[i] = tok

\* ------------------------------------------------------------- normalizer
IsDriftedMetric(m) == EndsWith(m.cfg_type, DCC) \/ Contains(m.metric_name, DCC)

SetMin(S) == CHOOSE x \in S : \A y \in S : x <= y

FindDriftedMetric(metrics) ==
    LET idx == {i \in 1..Len(metrics) : IsDriftedMetric(metrics[i])}
    IN  IF idx = {} THEN None ELSE Some(metrics[SetMin(idx)])

\* int(count / share): truncation in place of round()
RoundTruncated(num, den) == num \div den

\* Python 3 round(): to the nearest integer, a tie to the even one.
\* num / den with num >= 0 and den > 0.
Round(num, den) ==
    LET q == num \div den
        r == num % den
    IN  IF 2 * r < den THEN q
        ELSE IF 2 * r > den THEN q + 1
        ELSE IF q % 2 = 0 THEN q ELSE q + 1

\* `share and share != 0`
ShareUsable(share) == ~IsNone(share) /\ Val(share) # 0

NFeaturesOf(count, share, ref) ==
    IF ~IsNone(ref) THEN [raised |-> FALSE, v |-> Some(Cardinality(Val(ref)))]
    ELSE IF ShareUsable(share)
         THEN IF IsNone(count)
              THEN [raised |-> TRUE, v |-> None]      \* None / float: TypeError
              ELSE [raised |-> FALSE, v |-> Some(Round(2 * Val(count), Val(share)))]
         ELSE [raised |-> FALSE, v |-> None]

ThresholdOf(m) ==
    IF IsNone(m.drift_share) THEN drift_share_threshold_default ELSE Val(m.drift_share)

\* `if share:` in place of `if share is not None:`
ShareKnownTruthy(share) == ~IsNone(share) /\ Val(share) # 0

ShareKnown(share) == ~IsNone(share)

\* `>` in place of `>=`
DatasetDriftStrict(share, threshold) ==
    IF ShareKnown(share) THEN Val(share) > threshold ELSE FALSE

DatasetDrift(share, threshold) ==
    IF ShareKnown(share) THEN Val(share) >= threshold ELSE FALSE

parse_evidently_metrics_to_profile_like(report, ref) ==
    LET drifted_metric == FindDriftedMetric(report.metrics)
    IN  IF IsNone(drifted_metric)
        THEN [kind |-> "summary",
              n_features |-> IF ~IsNone(ref) THEN Some(Cardinality(Val(ref))) ELSE None,
              n_drifted_features |-> 0,
              dataset_drift |-> FALSE,
              drift_share |-> 0,
              drift_count |-> 0,
              drift_share_threshold |-> None]
        ELSE LET m == Val(drifted_metric)
                 nf == NFeaturesOf(m.count, m.share, ref)
                 n == IF IsNone(m.count) THEN 0 ELSE Val(m.count)
             IN  IF nf.raised
                 THEN [kind |-> "raise", error |-> "TypeError"]
                 ELSE [kind |-> "summary",
                       n_features |-> nf.v,
                       n_drifted_features |-> n,
                       dataset_drift |-> DatasetDrift(m.share, ThresholdOf(m)),
                       drift_share |-> IF IsNone(m.share) THEN 0 ELSE Val(m.share),
                       drift_count |-> n,
                       drift_share_threshold |-> Some(ThresholdOf(m))]

\* -------------------------------------------------------------- exceptions
PAE == "PredictiveAnalyticsException"
E(cls) == [cls |-> cls, cause |-> None]
\* PredictiveAnalyticsException(e, sys)
Wrap(e) == [cls |-> PAE, cause |-> Some(e)]
Ret(v) == [raised |-> FALSE, v |-> v]
Raise(e) == [raised |-> TRUE, e |-> e]

\* ------------------------------------------------------------------ schema
\* the schema document: len(columns), numerical_columns, categorical_columns;
\* a key may be missing from the document
Schemas ==
    [columns : {Some(2), Some(3)},
     numerical_columns : {Some({"c1"})},
     categorical_columns : {Some({}), Some({"c2"})}]
    \cup {[columns |-> None, numerical_columns |-> Some({"c1"}),
           categorical_columns |-> Some({"c2"})],
          [columns |-> Some(2), numerical_columns |-> None,
           categorical_columns |-> Some({})]}

\* `required_cols <= actual_cols` in place of `==`
validate_number_of_columns_AtLeast(df) ==
    IF IsNone(schema.columns) THEN Raise(Wrap(E("KeyError")))
    ELSE Ret(Val(schema.columns) <= Cardinality(df))

validate_number_of_columns(df) ==
    IF IsNone(schema.columns) THEN Raise(Wrap(E("KeyError")))
    ELSE Ret(Val(schema.columns) = Cardinality(df))

is_column_exist(df) ==
    IF IsNone(schema.numerical_columns) \/ IsNone(schema.categorical_columns)
    THEN Raise(Wrap(E("KeyError")))
    ELSE LET missing_numerical == Val(schema.numerical_columns) \ df
             missing_categorical == Val(schema.categorical_columns) \ df
         IN  Ret(~(missing_numerical # {} \/ missing_categorical # {}))

\* ------------------------------------------------------------------- paths
ConfigPaths == { <<"drift_report", "/", "report", ".json">>,
                 <<"drift_report", "/", "report", ".yaml">>,
                 <<"run", ".json", "/", "report", ".json">>,
                 <<"report", ".json">> }

\* str.replace(old, new): every occurrence
Replace(p, old, new) == [i \in 1..Len(p) |-> IF p[i] = old THEN new ELSE p[i]]

SetMax(S) == CHOOSE x \in S : \A y \in S : y <= x

\* os.path.dirname
Dirname(p) ==
    LET slashes == {i \in 1..Len(p) : p[i] = "/"}
    IN  IF slashes = {} THEN <<>> ELSE SubSeq(p, 1, SetMax(slashes) - 1)

AllPaths == ConfigPaths \cup {Replace(p, ".json", ".yaml") : p \in ConfigPaths}
Absent == [kind |-> "absent"]

\* ----------------------------------------------------------------- message
RECURSIVE Join(_, _)
\* sep.join(msgs)
Join(msgs, sep) ==
    IF Len(msgs) = 0 THEN <<>>
    ELSE IF Len(msgs) = 1 THEN <<msgs[1]>>
    ELSE <<msgs[1], sep>> \o Join(Tail(msgs), sep)

\* the conditional without its validation branch
MessageDriftOnly(drift, passed, msgs) ==
    IF drift THEN <<"Drift detected">> ELSE <<"Drift not detected">>

Message(drift, passed, msgs) ==
    IF drift THEN <<"Drift detected">>
    ELSE IF passed THEN <<"Drift not detected">>
    ELSE Join(msgs, "; ")

\* drift detection without the `if validation_passed:` guard
RunsDriftAlways(passed) == TRUE

RunsDrift(passed) == passed

\* the exception logged and swallowed, the method returning None
OnExceptionSwallowed(e) == [pc |-> "done", result |-> [kind |-> "none"]]

\* initiate_data_validation's `except Exception as e: raise ...`
OnException(e) ==
    [pc |-> "raised", result |-> [kind |-> "exception", error |-> Wrap(e)]]

\* ------------------------------------------------------------ orchestration
Init ==
    /\ schema \in Schemas
    /\ config_path \in ConfigPaths
    /\ pc = "start"
    /\ train_df = None
    /\ test_df = None
    /\ error_messages = <<>>
    /\ validation_passed = FALSE
    /\ drift_status = FALSE
    /\ rendered = None
    /\ files = [p \in AllPaths |-> Absent]
    /\ report_dict = None
    /\ reference_df = None
    /\ parsed = None
    /\ result = [kind |-> "none"]
    /\ steps = <<>>
    /\ failed_at = None
    /\ mongo_client = None
    /\ connections = 0
    /\ instances = <<>>

\* the exception e leaves initiate_data_validation at step `step`
Fails(step, e) ==
    /\ pc' = OnException(e).pc
    /\ result' = OnException(e).result
    /\ failed_at' = Some(step)

Proceeds(next) ==
    /\ pc' = next
    /\ UNCHANGED <<result, failed_at>>

ReadTrain ==
    /\ pc = "start"
    /\ steps' = Append(steps, "read_train")
    /\ \/ \E t \in Tables : train_df' = Some(t) /\ Proceeds("read_test")
       \/ train_df' = train_df /\ Fails("read_train", Wrap(E("OSError")))
    /\ UNCHANGED <<schema, config_path, test_df, error_messages, validation_passed,
                   drift_status, rendered, files, report_dict, reference_df, parsed>>
    /\ UNCHANGED mongo_vars

ReadTest ==
    /\ pc = "read_test"
    /\ steps' = Append(steps, "read_test")
    /\ \/ \E t \in Tables : test_df' = Some(t) /\ Proceeds("count_train")
       \/ test_df' = test_df /\ Fails("read_test", Wrap(E("OSError")))
    /\ UNCHANGED <<schema, config_path, train_df, error_messages, validation_passed,
                   drift_status, rendered, files, report_dict, reference_df, parsed>>
    /\ UNCHANGED mongo_vars

\* one `if not self.<check>(df): error_messages.append(msg)`
Check(here, next, outcome, msg) ==
    /\ pc = here
    /\ steps' = Append(steps, here)
    /\ IF outcome.raised
       THEN /\ Fails(here, outcome.e)
            /\ UNCHANGED error_messages
       ELSE /\ Proceeds(next)
            /\ error_messages' = IF outcome.v THEN error_messages
                                 ELSE Append(error_messages, msg)
    /\ UNCHANGED <<schema, config_path, train_df, test_df, validation_passed,
                   drift_status, rendered, files, report_dict, reference_df, parsed>>
    /\ UNCHANGED mongo_vars

CountTrain ==
    Check("count_train", "count_test", validate_number_of_columns(Val(train_df)),
          "Training data: Column count mismatch.")

CountTest ==
    Check("count_test", "exist_train", validate_number_of_columns(Val(test_df)),
          "Test data: Column count mismatch.")

ExistTrain ==
    Check("exist_train", "exist_test", is_column_exist(Val(train_df)),
          "Training data: Missing required columns.")

ExistTest ==
    Check("exist_test", "decide", is_column_exist(Val(test_df)),
          "Test data: Missing required columns.")

Decide ==
    /\ pc = "decide"
    /\ steps' = Append(steps, "decide")
    /\ validation_passed' = (Len(error_messages) = 0)
    /\ drift_status' = FALSE
    /\ pc' = IF RunsDrift(validation_passed') THEN "drift_run" ELSE "compose"
    /\ UNCHANGED <<schema, config_path, train_df, test_df, error_messages, rendered,
                   files, report_dict, reference_df, parsed, result, failed_at>>
    /\ UNCHANGED mongo_vars

\* --- detect_dataset_drift(train_df, test_df); what it raises it wraps itself
DriftRun ==
    /\ pc = "drift_run"
    /\ steps' = Append(steps, "drift_run")
    /\ reference_df' = train_df
    /\ \/ \E r \in RunReports : rendered' = Some(r) /\ Proceeds("drift_save_json")
       \/ rendered' = rendered /\ Fails("drift_run", Wrap(E("EngineError")))
    /\ UNCHANGED <<schema, config_path, train_df, test_df, error_messages,
                   validation_passed, drift_status, files, report_dict, parsed>>
    /\ UNCHANGED mongo_vars

DriftSaveJson ==
    /\ pc = "drift_save_json"
    /\ steps' = Append(steps, "drift_save_json")
    /\ LET json_path == config_path
       IN  IF Dirname(json_path) = <<>>
           THEN \* os.makedirs(""): FileNotFoundError
                /\ files' = files
                /\ Fails("drift_save_json", Wrap(E("FileNotFoundError")))
           ELSE \/ /\ files' = [files EXCEPT ![json_path] =
                                    [kind |-> "json", body |-> Val(rendered)]]
                   /\ Proceeds("drift_load_json")
                \/ /\ files' = files
                   /\ Fails("drift_save_json", Wrap(E("OSError")))
    /\ UNCHANGED <<schema, config_path, train_df, test_df, error_messages,
                   validation_passed, drift_status, rendered, report_dict,
                   reference_df, parsed>>
    /\ UNCHANGED mongo_vars

DriftLoadJson ==
    /\ pc = "drift_load_json"
    /\ steps' = Append(steps, "drift_load_json")
    /\ LET json_path == config_path
       IN  \/ /\ files[json_path].kind = "json"
              /\ report_dict' = Some(files[json_path].body)
              /\ Proceeds("drift_normalize")
           \/ /\ report_dict' = report_dict
              /\ Fails("drift_load_json", Wrap(E("OSError")))
    /\ UNCHANGED <<schema, config_path, train_df, test_df, error_messages,
                   validation_passed, drift_status, rendered, files, reference_df,
                   parsed>>
    /\ UNCHANGED mongo_vars

DriftNormalize ==
    /\ pc = "drift_normalize"
    /\ steps' = Append(steps, "drift_normalize")
    /\ LET p == parse_evidently_metrics_to_profile_like(Val(report_dict), reference_df)
       IN  IF p.kind = "raise"
           THEN /\ parsed' = parsed
                /\ Fails("drift_normalize", Wrap(E(p.error)))
           ELSE /\ parsed' = Some(p)
                /\ Proceeds("drift_build_profile")
    /\ UNCHANGED <<schema, config_path, train_df, test_df, error_messages,
                   validation_passed, drift_status, rendered, files, report_dict,
                   reference_df>>
    /\ UNCHANGED mongo_vars

\* profile_like, as write_yaml_file is given it
ProfileLike(p, report) ==
    [kind |-> "yaml",
     metrics |-> [n_features |-> p.n_features,
                  n_drifted_features |-> p.n_drifted_features,
                  dataset_drift |-> p.dataset_drift,
                  drift_share |-> p.drift_share,
                  drift_share_threshold |-> Val(p.drift_share_threshold)],
     raw_metrics |-> report.metrics]

DriftBuildProfile ==
    /\ pc = "drift_build_profile"
    /\ steps' = Append(steps, "drift_build_profile")
    /\ IF IsNone(Val(parsed).drift_share_threshold)
       THEN \* parsed["drift_share_threshold"]: KeyError
            Fails("drift_build_profile", Wrap(E("KeyError")))
       ELSE Proceeds("drift_write_yaml")
    /\ UNCHANGED <<schema, config_path, train_df, test_df, error_messages,
                   validation_passed, drift_status, rendered, files, report_dict,
                   reference_df, parsed>>
    /\ UNCHANGED mongo_vars

DriftWriteYaml ==
    /\ pc = "drift_write_yaml"
    /\ steps' = Append(steps, "drift_write_yaml")
    /\ LET json_path == config_path
           yaml_path == Replace(json_path, ".json", ".yaml")
       IN  \/ /\ files' = [files EXCEPT ![yaml_path] =
                               ProfileLike(Val(parsed), Val(report_dict))]
              /\ drift_status' = Val(parsed).dataset_drift
              /\ Proceeds("compose")
           \/ /\ files' = files
              /\ drift_status' = drift_status
              /\ Fails("drift_write_yaml", Wrap(E("OSError")))
    /\ UNCHANGED <<schema, config_path, train_df, test_df, error_messages,
                   validation_passed, rendered, report_dict, reference_df, parsed>>
    /\ UNCHANGED mongo_vars

Compose ==
    /\ pc = "compose"
    /\ steps' = Append(steps, "compose")
    /\ result' = [kind |-> "artifact",
                  validation_status |-> validation_passed,
                  message |-> Message(drift_status, validation_passed, error_messages),
                  drift_report_file_path |-> config_path]
    /\ pc' = "done"
    /\ UNCHANGED <<schema, config_path, train_df, test_df, error_messages,
                   validation_passed, drift_status, rendered, files, report_dict,
                   reference_df, parsed, failed_at>>
    /\ UNCHANGED mongo_vars

Next ==
    \/ ReadTrain
    \/ ReadTest
    \/ CountTrain
    \/ CountTest
    \/ ExistTrain
    \/ ExistTest
    \/ Decide
    \/ DriftRun
    \/ DriftSaveJson
    \/ DriftLoadJson
    \/ DriftNormalize
    \/ DriftBuildProfile
    \/ DriftWriteYaml
    \/ Compose

Spec == Init /\ [][Next]_vars

\* ------------------------------------------------- the normalizer on its own
InitNormalize ==
    /\ schema = None
    /\ config_path = <<>>
    /\ pc = "normalize"
    /\ train_df = None
    /\ test_df = None
    /\ error_messages = <<>>
    /\ validation_passed = FALSE
    /\ drift_status = FALSE
    /\ rendered = None
    /\ files = [p \in AllPaths |-> Absent]
    /\ report_dict \in {Some(r) : r \in Reports}
    /\ reference_df \in {None} \cup {Some(t) : t \in Tables}
    /\ parsed = None
    /\ result = [kind |-> "none"]
    /\ steps = <<>>
    /\ failed_at = None
    /\ mongo_client = None
    /\ connections = 0
    /\ instances = <<>>

Normalize ==
    /\ pc = "normalize"
    /\ parsed' = Some(parse_evidently_metrics_to_profile_like(Val(report_dict), reference_df))
    /\ pc' = "normalized"
    /\ UNCHANGED <<schema, config_path, train_df, test_df, error_messages,
                   validation_passed, drift_status, rendered, files, report_dict,
                   reference_df, result, steps, failed_at>>
    /\ UNCHANGED mongo_vars

NextNormalize == Normalize

SpecNormalize == InitNormalize /\ [][NextNormalize]_vars

\* ------------------------------------------------------------ MongoDBClient
MaxInstantiations == 3

\* os.environ.get(MONGODB_URL_KEY): absent, the empty string, or a URL
EnvValues == {None, Some(<<>>), Some(<<"mongodb+srv://", "cluster/db">>)}

\* database_name, and whether pymongo accepts it in client[database_name]
DatabaseNames == {"travel", ""}
ValidDatabaseName(n) == n # ""

\* `if not mongo_db_url`
UrlMissing(url) == IsNone(url) \/ Val(url) = <<>>

\* a new connection on every instantiation
NeedsClientAlways(shared) == TRUE

\* `if MongoDBClient.client is None`
NeedsClient(shared) == IsNone(shared)

\* MongoDBClient.__init__: given the class attribute, the environment, whether
\* pymongo.MongoClient(url) returns (connect_ok) and the database name, the
\* class attribute afterwards, the handle created (if one was) and what the
\* caller gets.  made is the number of connections created before.
MongoDBClient_init(shared, made, url, connect_ok, database_name) ==
    LET failed(sh, conn, cr, e) ==
            [shared |-> sh, connect |-> conn, created |-> cr,
             outcome |-> [kind |-> "exception", error |-> Wrap(e)]]
    IN  IF NeedsClient(shared) /\ UrlMissing(url)
        THEN failed(shared, "not_called", FALSE, E(PAE))
        ELSE IF NeedsClient(shared) /\ ~connect_ok
        THEN failed(shared, "raised", FALSE, E("ConfigurationError"))
        ELSE LET created == NeedsClient(shared)
                 now == IF created THEN Some(made + 1) ELSE shared
             IN  IF ~ValidDatabaseName(database_name)
                 THEN failed(now, IF created THEN "ok" ELSE "not_called",
                             created, E("InvalidName"))
                 ELSE [shared |-> now,
                       connect |-> IF created THEN "ok" ELSE "not_called",
                       created |-> created,
                       outcome |-> [kind |-> "instance", client |-> now,
                                    database_name |-> database_name]]

InitMongo ==
    /\ schema = None
    /\ config_path = <<>>
    /\ pc = "mongo"
    /\ train_df = None
    /\ test_df = None
    /\ error_messages = <<>>
    /\ validation_passed = FALSE
    /\ drift_status = FALSE
    /\ rendered = None
    /\ files = [p \in AllPaths |-> Absent]
    /\ report_dict = None
    /\ reference_df = None
    /\ parsed = None
    /\ result = [kind |-> "none"]
    /\ steps = <<>>
    /\ failed_at = None
    /\ mongo_client = None
    /\ connections = 0
    /\ instances = <<>>

\* one MongoDBClient(database_name) call, in the environment of its moment
Instantiate ==
    /\ pc = "mongo"
    /\ Len(instances) < MaxInstantiations
    /\ \E url \in EnvValues, connect_ok \in BOOLEAN, database_name \in DatabaseNames :
           LET r == MongoDBClient_init(mongo_client, connections, url,
                                       connect_ok, database_name)
           IN  /\ mongo_client' = r.shared
               /\ connections' = IF r.created THEN connections + 1 ELSE connections
               /\ instances' = Append(instances,
                                      [shared_before |-> mongo_client,
                                       env |-> url,
                                       connect |-> r.connect,
                                       created |-> r.created,
                                       outcome |-> r.outcome])
    /\ UNCHANGED <<schema, config_path, pc, train_df, test_df, error_messages,
                   validation_passed, drift_status, rendered, files, report_dict,
                   reference_df, parsed, result, steps, failed_at>>

NextMongo == Instantiate

SpecMongo == InitMongo /\ [][NextMongo]_vars

\* ----------------------------------------------- claims on the normalizer
Normalized == pc = "normalized"
Summary == Val(parsed)
Returned == Normalized /\ Summary.kind = "summary"
InputMetric == FindDriftedMetric(Val(report_dict).metrics)
Matched == ~IsNone(InputMetric)
EffectiveThreshold ==
    IF IsNone(Val(InputMetric).drift_share) THEN drift_share_threshold_default
    ELSE Val(Val(InputMetric).drift_share)
Abs(x) == IF x < 0 THEN -x ELSE x

\* C4: whenever the matched metric carries a share, the returned summary has
\* dataset_drift = (share >= threshold), the threshold being the metric's
\* configured drift_share or 0.5 when absent (inclusive: share equal to the
\* threshold gives true); whenever share is absent, dataset_drift is false.
C4_DriftIsInclusiveComparison ==
    (Returned /\ Matched) =>
        LET share == Val(InputMetric).share
        IN  /\ Summary.drift_share_threshold = Some(EffectiveThreshold)
            /\ ~IsNone(share) =>
                   /\ Summary.drift_share = Val(share)
                   /\ Summary.dataset_drift = (Val(share) >= EffectiveThreshold)
            /\ IsNone(share) => Summary.dataset_drift = FALSE

\* C4 witness: share equal to the defaulted threshold, and drift reported.
C4_Witness ==
    /\ Returned /\ Matched
    /\ IsNone(Val(InputMetric).drift_share)
    /\ Val(InputMetric).share = Some(drift_share_threshold_default)
    /\ Summary.dataset_drift = TRUE

\* C7 (as stated): a matched metric whose share is 0 never triggers drift,
\* even when the configured threshold is 0.
C7_ZeroShareNeverDrifts ==
    (Returned /\ Matched /\ Val(InputMetric).share = Some(0)) =>
        Summary.dataset_drift = FALSE

\* C7 (amended): a matched metric whose share is 0 triggers drift exactly when
\* the effective threshold is at most 0; with a positive threshold (the
\* default 0.5 included) dataset_drift is false.
C7_ZeroShareDriftsIffThresholdNotPositive ==
    (Normalized /\ Matched /\ Val(InputMetric).share = Some(0)) =>
        /\ Summary.kind = "summary"
        /\ Summary.dataset_drift = (EffectiveThreshold <= 0)

\* C7 witness: share 0 against a configured threshold of 0 reports drift.
C7_Witness ==
    /\ Returned /\ Matched
    /\ Val(InputMetric).share = Some(0)
    /\ Val(InputMetric).drift_share = Some(0)
    /\ Summary.dataset_drift = TRUE

\* C8 (as stated): a matched metric without a count field gives a summary with
\* n_drifted_features = 0 and no error, whether or not a reference table is
\* supplied and whatever the share.
C8_MissingCountIsHandled ==
    (Normalized /\ Matched /\ IsNone(Val(InputMetric).count)) =>
        /\ Summary.kind = "summary"
        /\ Summary.n_drifted_features = 0

Done == pc = "done"
Range(q) == {q[i] : i \in 1..Len(q)}
Index(q, x) == CHOOSE i \in 1..Len(q) : q[i] = x

\* the schema's requirement on one table, as the specification words it
CountMatches(t) == Cardinality(t) = Val(schema.columns)
RequiredPresent(t) ==
    /\ \A c \in Val(schema.numerical_columns) : c \in t
    /\ \A c \in Val(schema.categorical_columns) : c \in t
BothTablesConform ==
    \A t \in {Val(train_df), Val(test_df)} : CountMatches(t) /\ RequiredPresent(t)

CheckSteps == {"count_train", "count_test", "exist_train", "exist_test"}
DriftSteps == {"drift_run", "drift_save_json", "drift_load_json",
               "drift_normalize", "drift_build_profile", "drift_write_yaml"}
DriftStarted == Range(steps) \cap DriftSteps # {}
NoFileWritten == \A p \in AllPaths : files[p] = Absent

\* C1: whenever an artifact is returned, validation_status is true if and
\* only if both tables have as many columns as the schema and hold every
\* required numerical and categorical column; whether drift was detected
\* plays no part.
C1_ValidationStatus ==
    Done => /\ result.kind = "artifact"
            /\ result.validation_status = BothTablesConform

\* C1 witness: an artifact with drift detected and validation_status true.
C1_Witness ==
    /\ Done
    /\ drift_status = TRUE
    /\ result.validation_status = TRUE

\* C2: drift detection is started only after all four schema checks have
\* completed and passed; once the checks are decided, it has run if and only
\* if all four passed; when a check failed no file is written and the drift
\* status stays false.
C2_DriftOnlyAfterPassingChecks ==
    /\ DriftStarted =>
           /\ CheckSteps \subseteq Range(steps)
           /\ \A c \in CheckSteps : Index(steps, c) < Index(steps, "drift_run")
           /\ failed_at \notin {Some(c) : c \in CheckSteps}
           /\ BothTablesConform
    /\ ~DriftStarted => NoFileWritten /\ drift_status = FALSE
    /\ pc \in {"compose", "done"} =>
           /\ DriftStarted = BothTablesConform
           /\ DriftStarted => "drift_write_yaml" \in Range(steps)

\* C2 witness: a run that ended with exactly one failed check (the test
\* table's required columns) and no drift step.
C2_Witness ==
    /\ Done
    /\ error_messages = <<"Test data: Missing required columns.">>
    /\ ~DriftStarted
    /\ NoFileWritten

\* the messages of the failed checks, in the order of the checks
ExpectedErrors ==
    (IF CountMatches(Val(train_df)) THEN <<>>
     ELSE <<"Training data: Column count mismatch.">>)
    \o (IF CountMatches(Val(test_df)) THEN <<>>
        ELSE <<"Test data: Column count mismatch.">>)
    \o (IF RequiredPresent(Val(train_df)) THEN <<>>
        ELSE <<"Training data: Missing required columns.">>)
    \o (IF RequiredPresent(Val(test_df)) THEN <<>>
        ELSE <<"Test data: Missing required columns.">>)

\* C3: the artifact's message is, when validation failed, the messages of
\* exactly the failed checks (train count, test count, train existence, test
\* existence, in that order) separated by "; "; when validation passed it is
\* "Drift detected" if the drift boolean is true and "Drift not detected" if
\* it is false.
C3_Message ==
    Done =>
        IF BothTablesConform
        THEN result.message = IF Val(parsed).dataset_drift
                              THEN <<"Drift detected">>
                              ELSE <<"Drift not detected">>
        ELSE LET e == ExpectedErrors
             IN  /\ Len(result.message) = 2 * Len(e) - 1
                 /\ \A i \in 1..Len(e) : result.message[2 * i - 1] = e[i]
                 /\ \A i \in 1..(Len(e) - 1) : result.message[2 * i] = "; "

\* C3 witness: all four checks failed and all four messages are reported.
C3_Witness ==
    /\ Done
    /\ result.message = <<"Training data: Column count mismatch.", "; ",
                          "Test data: Column count mismatch.", "; ",
                          "Training data: Missing required columns.", "; ",
                          "Test data: Missing required columns.">>

\* C5 (as stated): a report without a drifted-columns-count metric is handled:
\* neither normalizing it nor building the summary raises, the summary has
\* n_drifted_features = 0, drift_share = 0.0 and dataset_drift = False, and the
\* drift boolean returned is false.
C5_MissingMetricIsHandled ==
    (~IsNone(report_dict) /\ IsNone(FindDriftedMetric(Val(report_dict).metrics))) =>
        /\ failed_at \notin {Some("drift_normalize"), Some("drift_build_profile")}
        /\ ~IsNone(parsed) =>
               /\ Val(parsed).n_drifted_features = 0
               /\ Val(parsed).drift_share = 0
               /\ Val(parsed).dataset_drift = FALSE
        /\ drift_status = FALSE

\* C6: a failure at any step aborts the run: the caller receives one
\* PredictiveAnalyticsException and no artifact, the failing step is the last
\* step executed, and no step is executed twice.
C6_FailureAborts ==
    /\ ~IsNone(failed_at) =>
           /\ pc = "raised"
           /\ result.kind = "exception"
           /\ result.error.cls = PAE
           /\ steps[Len(steps)] = Val(failed_at)
    /\ result.kind = "artifact" => IsNone(failed_at)
    /\ \A i, j \in 1..Len(steps) : steps[i] = steps[j] => i = j
    /\ pc = "raised" => ~ENABLED Next

\* C6 witness: the summary YAML could not be written, after the raw JSON
\* was, and the run raised.
C6_Witness ==
    /\ failed_at = Some("drift_write_yaml")
    /\ pc = "raised"
    /\ files[config_path].kind = "json"

\* C10 (as stated): after a successful detect_dataset_drift the raw report is
\* at the configured path as JSON, written before it was read back, and the
\* summary YAML is at a different path, the configured path with its
\* extension .json replaced by .yaml.
C10_TwoDistinctFiles ==
    ("drift_write_yaml" \in Range(steps) /\ failed_at # Some("drift_write_yaml")) =>
        LET json_path == config_path
            n == Len(json_path)
        IN  /\ Index(steps, "drift_save_json") < Index(steps, "drift_load_json")
            /\ files[json_path].kind = "json"
            /\ \E yaml_path \in AllPaths :
                   /\ yaml_path # json_path
                   /\ files[yaml_path].kind = "yaml"
                   /\ Len(yaml_path) = n
                   /\ SubSeq(yaml_path, 1, n - 1) = SubSeq(json_path, 1, n - 1)
                   /\ json_path[n] = ".json"
                   /\ yaml_path[n] = ".yaml"

\* ------------------------------------------------- claims on MongoDBClient
Constructed(i) == instances[i].outcome.kind = "instance"
EnvSet(i) == ~IsNone(instances[i].env) /\ Val(instances[i].env) # <<>>
\* the instantiations that looked up the environment and found a URL there
FoundUrl == {i \in 1..Len(instances) :
                 IsNone(instances[i].shared_before) /\ EnvSet(i)}

\* what C11 says in both its forms: at most one connection is ever created,
\* every constructed instance holds the shared handle, and an instantiation
\* with the handle unset and the variable absent fails with
\* PredictiveAnalyticsException and leaves the handle unset
SingleSharedHandle ==
    /\ connections <= 1
    /\ \A i \in 1..Len(instances) :
           /\ Constructed(i) =>
                  /\ instances[i].outcome.client = mongo_client
                  /\ mongo_client = Some(1)
           /\ (IsNone(instances[i].shared_before) /\ IsNone(instances[i].env)) =>
                  /\ instances[i].outcome.kind = "exception"
                  /\ instances[i].outcome.error.cls = PAE
                  /\ ~instances[i].created
                  /\ (i < Len(instances) => IsNone(instances[i + 1].shared_before))
                  /\ (i = Len(instances) => IsNone(mongo_client))

\* C11 (as stated): the connection is created at most once, by the first
\* instantiation that finds the connection-URL variable set; every constructed
\* instance holds that shared handle; an instantiation with the handle unset
\* and the variable absent fails and leaves the handle unset.
C11_CreatedByFirstThatFindsUrl ==
    /\ SingleSharedHandle
    /\ \A i \in 1..Len(instances) :
           instances[i].created <=> (FoundUrl # {} /\ i = SetMin(FoundUrl))

\* C11 (amended): as stated, except that the connection is created by the
\* first instantiation that finds the variable set and for which
\* pymongo.MongoClient returns; one for which it raises leaves the handle
\* unset, and a later instantiation creates the connection.
C11_CreatedByFirstThatConnects ==
    /\ SingleSharedHandle
    /\ LET Connected == {i \in FoundUrl : instances[i].connect = "ok"}
       IN  \A i \in 1..Len(instances) :
               /\ instances[i].created <=> (Connected # {} /\ i = SetMin(Connected))
               /\ (i \in FoundUrl /\ instances[i].connect = "raised") =>
                      /\ instances[i].outcome.kind = "exception"
                      /\ instances[i].outcome.error.cls = PAE
                      /\ (i < Len(instances) => IsNone(instances[i + 1].shared_before))

\* C11 witness: the first instantiation finds a URL and pymongo raises, the
\* second creates the connection, the third reuses it.
C11_Witness ==
    /\ Len(instances) = 3
    /\ instances[1].connect = "raised"
    /\ instances[2].created /\ Constructed(2)
    /\ ~instances[3].created /\ Constructed(3)
    /\ instances[3].outcome.client = instances[2].outcome.client

====
